---- MODULE Spec2Model ----
(***************************************************************************)
(* Model of the /api/predict route handler (src/src/app/api/predict/       *)
(* route.ts): the process-wide ONNX session cache (getSessions), the       *)
(* single-model inference with its fallback (runInference), and the batch  *)
(* handler (GET) with its max-congestion aggregation.                      *)
(*                                                                         *)
(* JavaScript runs one continuation at a time, so every action is the code *)
(* between two awaits of one request.  Numbers that are fractions in the   *)
(* program (model outputs, probabilities) are kept in tenths: 7 is 0.7,    *)
(* 10 is 1.0, 26 is 2.6.                                                   *)
(***************************************************************************)
EXTENDS Integers, Sequences, FiniteSets, TLC

\* ---- bounds of the model ------------------------------------------------
NumReqs == 2      \* requests that can be in flight at the same time
NumLocs == 2      \* length of the configured location list
MaxLoads == 3     \* load attempts (readFile pairs) started per process

Reqs == 1..NumReqs

\* ---- JavaScript values --------------------------------------------------
\* null for a value that is otherwise a one-element tuple
null == <<>>

\* a JavaScript number that may be NaN (the result of parseInt)
Num(v) == [nan |-> FALSE, val |-> v]
NaN == [nan |-> TRUE, val |-> 0]

Digits == {"0", "1", "2", "3", "4", "5", "6", "7", "8", "9"}

DigitVal(c) ==
    CASE c = "0" -> 0 [] c = "1" -> 1 [] c = "2" -> 2 [] c = "3" -> 3
      [] c = "4" -> 4 [] c = "5" -> 5 [] c = "6" -> 6 [] c = "7" -> 7
      [] c = "8" -> 8 [] c = "9" -> 9

\* the string without its leading white space
RECURSIVE TrimStart(_)
TrimStart(s) ==
    IF s # <<>> /\ Head(s) = " " THEN TrimStart(Tail(s)) ELSE s

\* value of the longest prefix of decimal digits of s, continuing from acc
RECURSIVE DigitPrefix(_, _)
DigitPrefix(s, acc) ==
    IF s # <<>> /\ Head(s) \in Digits
    THEN DigitPrefix(Tail(s), 10 * acc + DigitVal(Head(s)))
    ELSE acc

\* parseInt(s) with no radix: white space, an optional sign, then the
\* longest run of decimal digits; NaN when there is no digit there.
\* A string is a tuple of one-character strings.
parseInt(s) ==
    LET t == TrimStart(s)
        neg == t # <<>> /\ Head(t) = "-"
        u == IF t # <<>> /\ Head(t) \in {"-", "+"} THEN Tail(t) ELSE t
    IN  IF u = <<>> \/ Head(u) \notin Digits
        THEN NaN
        ELSE Num(IF neg THEN 0 - DigitPrefix(u, 0) ELSE DigitPrefix(u, 0))

\* truthiness of the value searchParams.get returns: null and "" are falsy
Truthy(c) == c # null /\ c[1] # <<>>

\* customHour ? parseInt(customHour) : timeInfo.hour
ResolveTime(custom, current) ==
    IF Truthy(custom) THEN parseInt(custom[1]) ELSE Num(current)

\* ---- injected collaborators ---------------------------------------------
\* the configured location list (@/lib/locations): name, latitude, longitude
cameraLocations ==
    [i \in 1..NumLocs |->
        [name |-> <<"camera", i>>, latitude |-> 330 + i, longitude |-> 730 + i]]

\* what getCurrentTimeInfo can return
TimeInfos == {[hour |-> 9, day |-> 3]}

\* what searchParams.get("hour") / get("day") can return
Overrides ==
    {null, << <<>> >>, << <<"1", "2">> >>, << <<"x">> >>, << <<"5", "x">> >>}

\* what getWeatherForTime can resolve to
Weathers ==
    {[temperature_2m |-> 21, precipitation |-> 4, rain |-> 3,
      wind_speed_10m |-> 15]}

NoWeather ==
    [temperature_2m |-> 0, precipitation |-> 0, rain |-> 0, wind_speed_10m |-> 0]

\* thrown values: Error objects, of which the handler reads only .message
WeatherError == [message |-> "weather fetch failed"]
ReadError(stage) ==
    [message |-> IF stage = 1 THEN "ENOENT model_stage1.onnx"
                 ELSE "ENOENT model_stage2.onnx"]
CreateError(stage) ==
    [message |-> IF stage = 1 THEN "cannot create session for stage1"
                 ELSE "cannot create session for stage2"]
NoModelsError == [message |-> "No models loaded"]

\* the output tensors session.run can resolve to, in tenths
Outputs ==
    {<<1, 7, 2>>, <<5, 5, 0>>, <<1, 2, 3, 8>>, <<26>>, <<-10>>, <<14, 99>>}

\* ---- the session cache (route.ts:23) ------------------------------------
NoSession == [stage |-> 0, load |-> 0]
Session(stage, load) == [stage |-> stage, load |-> load]
EmptySessions == [stage1 |-> NoSession, stage2 |-> NoSession]

\* variant: the cache is never found filled
BothResidentNever(s) == FALSE

\* sessions.stage1 && sessions.stage2
BothResident(s) == s.stage1 # NoSession /\ s.stage2 # NoSession

\* ---- runInference (route.ts:51-83) --------------------------------------
\* variant: a later value replaces the maximum also when it is equal
RECURSIVE ArgMaxLastFrom(_, _, _, _)
ArgMaxLastFrom(out, i, maxIdx, maxVal) ==
    IF i > Len(out)
    THEN [congestion |-> maxIdx - 1, probability |-> maxVal]
    ELSE IF out[i] >= maxVal
         THEN ArgMaxLastFrom(out, i + 1, i, out[i])
         ELSE ArgMaxLastFrom(out, i + 1, maxIdx, maxVal)

\* the argmax loop of the multi-class branch, from index i on
RECURSIVE ArgMaxFrom(_, _, _, _)
ArgMaxFrom(out, i, maxIdx, maxVal) ==
    IF i > Len(out)
    THEN [congestion |-> maxIdx - 1, probability |-> maxVal]
    ELSE IF out[i] > maxVal
         THEN ArgMaxFrom(out, i + 1, i, out[i])
         ELSE ArgMaxFrom(out, i + 1, maxIdx, maxVal)

\* variant: the fraction is cut off
MathRoundDown(v) == v \div 10

\* Math.round of a value in tenths: the nearest integer, halves upwards
MathRound(v) == (v + 5) \div 10

Min2(a, b) == IF a < b THEN a ELSE b
Max2(a, b) == IF a > b THEN a ELSE b

\* the decoding of the output tensor
Decode(out) ==
    IF Len(out) >= 3
    THEN ArgMaxFrom(out, 2, 1, out[1])
    ELSE [congestion |-> Max2(0, Min2(2, MathRound(out[1]))), probability |-> 10]

\* variant: the catch block reports the highest level
FallbackHigh == [congestion |-> 2, probability |-> 0]

\* the value the catch block returns
Fallback == [congestion |-> 0, probability |-> 0]

\* variant: the catch block returns the scalar branch's probability
runInferenceFullConfidence(run) ==
    IF run = <<>> THEN [congestion |-> 0, probability |-> 10] ELSE Decode(run[1])

\* the outcome of one call: run is <<>> when tensor construction, session.run
\* or the decoding threw, and <<out>> when session.run resolved to out
runInference(run) == IF run = <<>> THEN Fallback ELSE Decode(run[1])

RunOutcomes == {<<>>} \cup {<<o>> : o \in Outputs}

\* ---- aggregation (route.ts:131-133) -------------------------------------
\* variants of the comparison: the lower level wins; the higher probability
\* wins; a tie goes to the later
PickLower(prev, current) ==
    IF current.congestion < prev.congestion THEN current ELSE prev

PickByProbability(prev, current) ==
    IF current.probability > prev.probability THEN current ELSE prev

PickLaterOnTie(prev, current) ==
    IF current.congestion >= prev.congestion THEN current ELSE prev

Pick(prev, current) ==
    IF current.congestion > prev.congestion THEN current ELSE prev

\* results.reduce(Pick) without an initial value, on a non-empty list
RECURSIVE ReduceFrom(_, _, _)
ReduceFrom(results, i, prev) ==
    IF i > Len(results) THEN prev
    ELSE ReduceFrom(results, i + 1, Pick(prev, results[i]))

Reduce(results) == ReduceFrom(results, 2, results[1])

\* CONGESTION_LABELS[level] (@/lib/types); undefined for any other index
CONGESTION_LABELS(level) ==
    CASE level = 0 -> "Low" [] level = 1 -> "Moderate" [] level = 2 -> "High"
      [] OTHER -> "undefined"

\* ---- the responses of GET (route.ts:145-163) -----------------------------
NoResponse ==
    [status |-> 0, error |-> "", details |-> "", predictions |-> <<>>,
     weather |-> NoWeather, hour |-> Num(0), day |-> Num(0)]

\* variant: the details repeat the generic message
DetailsGeneric(err) == "Failed to generate predictions"

\* err.message || String(err)
Details(err) == IF err.message # "" THEN err.message ELSE "Error"

\* NextResponse.json({error, details}, {status: 500})
JsonError(err) ==
    [NoResponse EXCEPT !.status = 500,
                       !.error = "Failed to generate predictions",
                       !.details = Details(err)]

\* NextResponse.json(response); the timestamp is left out
JsonOk(predictions, weather, hour, day) ==
    [NoResponse EXCEPT !.status = 200, !.predictions = predictions,
                       !.weather = weather, !.hour = hour, !.day = day]

\* ---- state --------------------------------------------------------------
VARIABLES
    sessions,   \* the module-level cache: [stage1, stage2]
    loads,      \* load attempts started so far (pairs of readFile calls)
    req,        \* per request in flight: its position and its locals
    probe       \* one application of runInference or of the reduction to a
                \* given input, for the properties of the two as functions

vars == <<sessions, loads, req, probe>>

\* a slot with no request in it
IdleReq ==
    [pc |-> "idle", customHour |-> null, customDay |-> null,
     timeInfo |-> [hour |-> 0, day |-> 0], hour |-> Num(0), day |-> Num(0),
     weather |-> NoWeather, loadId |-> 0, held |-> EmptySessions,
     idx |-> 0, inputData |-> <<>>, results |-> <<>>, predictions |-> <<>>,
     response |-> NoResponse,
     \* history, not read by the handler: what session.run did for each entry
     \* of results, and the results and runs behind the latest prediction
     runs |-> <<>>, aggregated |-> [results |-> <<>>, runs |-> <<>>,
                                    calls |-> <<>>],
     \* history: the session and the vector of each runInference call made
     \* for the current location
     calls |-> <<>>,
     \* history: how the reads and the constructions of this request's load
     \* settled, <<ok1, ok2>> each, <<>> while not settled
     attempt |-> [read |-> <<>>, create |-> <<>>]]

\* no result yet
NoResult == [congestion |-> -1, probability |-> -1]

\* nothing applied: out is an output tensor and decoded what runInference
\* returns for it; results is a list of results, of which entry at is
\* replaced by the result by; before and after are the two reductions
NoProbe ==
    [out |-> <<>>, decoded |-> NoResult, results |-> <<>>, at |-> 0,
     by |-> NoResult, before |-> NoResult, after |-> NoResult,
     applied |-> FALSE]

Init ==
    /\ sessions = EmptySessions
    /\ loads = 0
    /\ req = [r \in Reqs |-> IdleReq]
    /\ probe = NoProbe

\* ---- the body of GET between awaits -------------------------------------
\* the catch block of GET
\* variant: the error leaves the handler without a response
FailHangs(rq, err) == [rq EXCEPT !.pc = "thrown"]

Fail(rq, err) == [rq EXCEPT !.pc = "done", !.response = JsonError(err)]

\* variant: hour and day change places
InputDataDayFirst(loc, hour, day, weather) ==
    <<Num(loc.latitude), Num(loc.longitude), day, hour,
      Num(weather.temperature_2m), Num(weather.precipitation),
      Num(weather.rain), Num(weather.wind_speed_10m)>>

\* the 8 features of one location (route.ts:110-119)
InputData(loc, hour, day, weather) ==
    <<Num(loc.latitude), Num(loc.longitude), hour, day,
      Num(weather.temperature_2m), Num(weather.precipitation),
      Num(weather.rain), Num(weather.wind_speed_10m)>>

\* the object pushed to predictions (route.ts:135-142)
Prediction(loc, finalResult) ==
    [location |-> loc.name, latitude |-> loc.latitude,
     longitude |-> loc.longitude, congestion |-> finalResult.congestion,
     congestionLabel |-> CONGESTION_LABELS(finalResult.congestion),
     probability |-> finalResult.probability]

\* the loop body for location i up to its first await (route.ts:108-124);
\* with neither handle present results stays empty and line 126 throws
BeginIteration(rq, i) ==
    LET a == [rq EXCEPT !.idx = i, !.results = <<>>, !.runs = <<>>,
                        !.calls = <<>>,
                        !.inputData = InputData(cameraLocations[i], rq.hour,
                                                rq.day, rq.weather)]
    IN  IF rq.held.stage1 # NoSession THEN [a EXCEPT !.pc = "run1"]
        ELSE IF rq.held.stage2 # NoSession THEN [a EXCEPT !.pc = "run2"]
        ELSE Fail(a, NoModelsError)

\* variant: the loop stops one location early
FinishLocationShort(rq) ==
    IF Len(rq.results) = 0 THEN Fail(rq, NoModelsError)
    ELSE LET finalResult == Reduce(rq.results)
             b == [rq EXCEPT !.predictions =
                      Append(@, Prediction(cameraLocations[rq.idx], finalResult)),
                             !.aggregated =
                      [results |-> rq.results, runs |-> rq.runs,
                       calls |-> rq.calls]]
         IN  IF rq.idx >= NumLocs - 1
             THEN [b EXCEPT !.pc = "done",
                            !.response = JsonOk(b.predictions, b.weather,
                                                b.hour, b.day)]
             ELSE BeginIteration(b, rq.idx + 1)

\* from the results of location rq.idx to the next await or to the response
\* (route.ts:126-153)
FinishLocation(rq) ==
    IF Len(rq.results) = 0 THEN Fail(rq, NoModelsError)
    ELSE LET finalResult == Reduce(rq.results)
             b == [rq EXCEPT !.predictions =
                      Append(@, Prediction(cameraLocations[rq.idx], finalResult)),
                             !.aggregated =
                      [results |-> rq.results, runs |-> rq.runs,
                       calls |-> rq.calls]]
         IN  IF rq.idx = NumLocs
             THEN [b EXCEPT !.pc = "done",
                            !.response = JsonOk(b.predictions, b.weather,
                                                b.hour, b.day)]
             ELSE BeginIteration(b, rq.idx + 1)

\* variant: stage2 is never run
AfterStage1Only(rq) == FinishLocation(rq)

\* variant: a failed stage1 run reaches the catch block of GET
AfterStage1Raise(rq) ==
    IF rq.runs[Len(rq.runs)] = <<>>
    THEN Fail(rq, [message |-> "Inference failed"])
    ELSE IF rq.held.stage2 # NoSession THEN [rq EXCEPT !.pc = "run2"]
         ELSE FinishLocation(rq)

\* after the stage1 result is pushed (route.ts:124)
AfterStage1(rq) ==
    IF rq.held.stage2 # NoSession THEN [rq EXCEPT !.pc = "run2"]
    ELSE FinishLocation(rq)

\* variants: each handle is cached as soon as it exists; a failed load
\* empties the cache
StoredSibling(old, load, ok1, ok2) ==
    [stage1 |-> IF ok1 THEN Session(1, load) ELSE old.stage1,
     stage2 |-> IF ok2 THEN Session(2, load) ELSE old.stage2]

StoredClearOnFail(old, load, ok1, ok2) ==
    IF ok1 /\ ok2
    THEN [stage1 |-> Session(1, load), stage2 |-> Session(2, load)]
    ELSE EmptySessions

\* what line 43 leaves in the cache after the two session constructions
\* settled: both handles when both succeeded, the old value otherwise
Stored(old, load, ok1, ok2) ==
    IF ok1 /\ ok2
    THEN [stage1 |-> Session(1, load), stage2 |-> Session(2, load)]
    ELSE old

\* variant: the handle is read from the cache at every call
SessionForFromCache(rq, cache, stage) ==
    IF stage = 1 THEN cache.stage1 ELSE cache.stage2

\* the handle a request runs a stage on: the constant bound at line 103
SessionFor(rq, cache, stage) ==
    IF stage = 1 THEN rq.held.stage1 ELSE rq.held.stage2

\* ---- actions ------------------------------------------------------------
\* a request arrives: parameters, time, call of getWeatherForTime
\* (route.ts:88-100)
GETStart(r, E) ==
    /\ req[r].pc = "idle"
    /\ \E ch \in E.overrides, cd \in E.overrides, ti \in TimeInfos :
          req' = [req EXCEPT ![r] =
                    [IdleReq EXCEPT !.pc = "weather", !.customHour = ch,
                                    !.customDay = cd, !.timeInfo = ti,
                                    !.hour = ResolveTime(ch, ti.hour),
                                    !.day = ResolveTime(cd, ti.day)]]
    /\ UNCHANGED <<sessions, loads, probe>>

\* getWeatherForTime rejects: the catch block answers (route.ts:100, 155-163)
WeatherRejected(r) ==
    /\ req[r].pc = "weather"
    /\ req' = [req EXCEPT ![r] = Fail(@, WeatherError)]
    /\ UNCHANGED <<sessions, loads, probe>>

\* getWeatherForTime resolves and getSessions runs up to its first await:
\* either the cached object is returned and the loop starts, or the two
\* reads are started (route.ts:100-103, 25-36)
WeatherResolved(r) ==
    /\ req[r].pc = "weather"
    /\ \E w \in Weathers :
          LET a == [req[r] EXCEPT !.weather = w]
          IN  IF BothResident(sessions)
              THEN /\ req' = [req EXCEPT ![r] =
                                BeginIteration([a EXCEPT !.held = sessions], 1)]
                   /\ UNCHANGED loads
              ELSE /\ loads < MaxLoads
                   /\ loads' = loads + 1
                   /\ req' = [req EXCEPT ![r] =
                                [a EXCEPT !.pc = "read", !.loadId = loads + 1]]
    /\ UNCHANGED <<sessions, probe>>

\* Promise.all of the two readFile calls settles (route.ts:33-36, 45-48)
ReadSettled(r) ==
    /\ req[r].pc = "read"
    /\ \E ok1 \in BOOLEAN, ok2 \in BOOLEAN :
          LET a == [req[r] EXCEPT !.attempt.read = <<ok1, ok2>>]
          IN  IF ok1 /\ ok2
              THEN req' = [req EXCEPT ![r] = [a EXCEPT !.pc = "create"]]
              ELSE \E stage \in {s \in {1, 2} : IF s = 1 THEN ~ok1 ELSE ~ok2} :
                      req' = [req EXCEPT ![r] = Fail(a, ReadError(stage))]
    /\ UNCHANGED <<sessions, loads, probe>>

\* variant: a failed construction is not rethrown; the request goes on with
\* the handles that could be made
CreateSettledSwallow(r) ==
    /\ req[r].pc = "create"
    /\ \E ok1 \in BOOLEAN, ok2 \in BOOLEAN :
          LET a == [req[r] EXCEPT !.attempt.create = <<ok1, ok2>>]
              made == [stage1 |-> IF ok1 THEN Session(1, a.loadId) ELSE NoSession,
                       stage2 |-> IF ok2 THEN Session(2, a.loadId) ELSE NoSession]
          IN  /\ sessions' = Stored(sessions, a.loadId, ok1, ok2)
              /\ req' = [req EXCEPT ![r] =
                            BeginIteration([a EXCEPT !.held = made], 1)]
    /\ UNCHANGED <<loads, probe>>

\* Promise.all of the two InferenceSession.create calls settles
\* (route.ts:38-48, 103)
CreateSettled(r) ==
    /\ req[r].pc = "create"
    /\ \E ok1 \in BOOLEAN, ok2 \in BOOLEAN :
          LET a == [req[r] EXCEPT !.attempt.create = <<ok1, ok2>>]
          IN  /\ sessions' = Stored(sessions, a.loadId, ok1, ok2)
              /\ IF ok1 /\ ok2
                 THEN req' = [req EXCEPT ![r] =
                                BeginIteration([a EXCEPT !.held = sessions'], 1)]
                 ELSE \E stage \in {s \in {1, 2} : IF s = 1 THEN ~ok1 ELSE ~ok2} :
                         req' = [req EXCEPT ![r] = Fail(a, CreateError(stage))]
    /\ UNCHANGED <<loads, probe>>

\* runInference(stage1, inputData) returns (route.ts:123)
RunStage1(r, E) ==
    /\ req[r].pc = "run1"
    /\ \E run \in E.runs :
          req' = [req EXCEPT ![r] =
                    AfterStage1([@ EXCEPT !.results =
                                    Append(@, runInference(run)),
                                            !.runs = Append(@, run),
                                            !.calls = Append(@,
                                      [session |-> SessionFor(req[r], sessions, 1),
                                       input |-> req[r].inputData])])]
    /\ UNCHANGED <<sessions, loads, probe>>

\* runInference(stage2, inputData) returns; aggregation, and either the next
\* location or the response (route.ts:124-153)
RunStage2(r, E) ==
    /\ req[r].pc = "run2"
    /\ \E run \in E.runs :
          req' = [req EXCEPT ![r] =
                    FinishLocation([@ EXCEPT !.results =
                                       Append(@, runInference(run)),
                                               !.runs = Append(@, run),
                                               !.calls = Append(@,
                                      [session |-> SessionFor(req[r], sessions, 2),
                                       input |-> req[r].inputData])])]
    /\ UNCHANGED <<sessions, loads, probe>>

\* the response has been sent; the slot is free for the next request
Respond(r) ==
    /\ req[r].pc = "done"
    /\ req' = [req EXCEPT ![r] = IdleReq]
    /\ UNCHANGED <<sessions, loads, probe>>

\* one step of request r, its inputs drawn from the sets of E
Step(r, E) ==
    \/ GETStart(r, E)
    \/ WeatherRejected(r)
    \/ WeatherResolved(r)
    \/ ReadSettled(r)
    \/ CreateSettled(r)
    \/ RunStage1(r, E)
    \/ RunStage2(r, E)
    \/ Respond(r)

\* requests served one after the other, with every input of the model
AllInputs == [overrides |-> Overrides, runs |-> RunOutcomes]

Next == Step(1, AllInputs)

Spec == Init /\ [][Next]_vars

\* up to NumReqs requests in flight at once, interleaved at their awaits;
\* the inputs that only fill in data are cut down to one value each
FewInputs == [overrides |-> {null}, runs |-> {<< <<1, 7, 2>> >>}]

NextConcurrent == \E r \in Reqs : Step(r, FewInputs)

SpecConcurrent == Init /\ [][NextConcurrent]_vars

\* an awaited step of request r settles, by resolving or by rejecting
Settle(r) ==
    \/ WeatherRejected(r)
    \/ WeatherResolved(r)
    \/ ReadSettled(r)
    \/ CreateSettled(r)
    \/ RunStage1(r, FewInputs)
    \/ RunStage2(r, FewInputs)

\* every promise a request awaits is settled in the end, and the event loop
\* then runs the continuation of the await
SpecLive ==
    Init /\ [][NextConcurrent]_vars /\ \A r \in Reqs : WF_vars(Settle(r))

\* ---- runInference and the reduction as functions -------------------------
MaxClasses == 4   \* longest output tensor applied
MaxResults == 3   \* longest list of results reduced

\* the values of an output tensor, in tenths
ScoreValues == {-10, 5, 7, 16, 26}

TensorOutputs == UNION {[1..n -> ScoreValues] : n \in 1..MaxClasses}

InitDecode ==
    /\ sessions = EmptySessions
    /\ loads = 0
    /\ req = [r \in Reqs |-> IdleReq]
    /\ probe \in {[NoProbe EXCEPT !.out = o] : o \in TensorOutputs}

\* runInference on a session whose run resolves to probe.out
ApplyDecode ==
    /\ ~probe.applied
    /\ probe.out # <<>>
    /\ probe' = [probe EXCEPT !.decoded = runInference(<<probe.out>>),
                              !.applied = TRUE]
    /\ UNCHANGED <<sessions, loads, req>>

SpecDecode == InitDecode /\ [][ApplyDecode]_vars

\* results as runInference can return them
SampleResults == [congestion : 0..2, probability : {3, 8}]

ResultLists == UNION {[1..n -> SampleResults] : n \in 1..MaxResults}

\* a list, a place in it, and a result of equal or higher level to put there
Replacements ==
    {t \in ResultLists \X (1..MaxResults) \X SampleResults :
        /\ t[2] <= Len(t[1])
        /\ t[3].congestion >= t[1][t[2]].congestion}

InitReduce ==
    /\ sessions = EmptySessions
    /\ loads = 0
    /\ req = [r \in Reqs |-> IdleReq]
    /\ probe \in {[NoProbe EXCEPT !.results = t[1], !.at = t[2], !.by = t[3]] :
                     t \in Replacements}

\* the reduction of the list, and of the list with one result replaced
ApplyReduce ==
    /\ ~probe.applied
    /\ probe.results # <<>>
    /\ probe' = [probe EXCEPT
                    !.before = Reduce(probe.results),
                    !.after = Reduce([probe.results EXCEPT ![probe.at] = probe.by]),
                    !.applied = TRUE]
    /\ UNCHANGED <<sessions, loads, req>>

SpecReduce == InitReduce /\ [][ApplyReduce]_vars

\* ---- properties ---------------------------------------------------------
Last(seq) == seq[Len(seq)]

\* the highest congestion ordinal among a non-empty list of results
MaxOrdinal(results) ==
    CHOOSE m \in {results[k].congestion : k \in 1..Len(results)} :
        \A k \in 1..Len(results) : m >= results[k].congestion

Answered(r) == req[r].pc = "done"
Succeeded(r) == Answered(r) /\ req[r].response.status = 200
Refused(r) == Answered(r) /\ req[r].response.status = 500

\* predictions of a request only grow, by appending, until its slot is reused
PredictionsKept ==
    \A r \in Reqs :
        \/ req'[r].pc = "idle"
        \/ /\ Len(req'[r].predictions) >= Len(req[r].predictions)
           /\ SubSeq(req'[r].predictions, 1, Len(req[r].predictions))
                 = req[r].predictions

\* the latest prediction of every request has the highest level of the two
\* results it was reduced from, and a successful response carries the
\* predictions as they were pushed
LatestIsMax ==
    \A r \in Reqs :
        /\ req[r].predictions # <<>> =>
              LET a == req[r].aggregated.results
                  p == Last(req[r].predictions)
              IN  /\ Len(a) = 2
                  /\ p.congestion = MaxOrdinal(a)
                  /\ p.congestion >= a[1].congestion
                  /\ p.congestion >= a[2].congestion
        /\ Succeeded(r) => req[r].response.predictions = req[r].predictions

\* C1: every prediction of a returned batch has the maximum congestion
\* ordinal of the stage1 and stage2 results aggregated for its location: it
\* holds for each prediction when it is pushed, and pushed predictions are
\* never changed afterwards.
C1_MaxCongestion == []LatestIsMax /\ [][PredictionsKept]_vars

\* a batch was returned whose last location had stage2 above stage1
C1_Witness ==
    \E r \in Reqs :
        /\ Succeeded(r)
        /\ req[r].aggregated.results[1].congestion
              < req[r].aggregated.results[2].congestion
        /\ req[r].aggregated.runs[1] # <<>>

\* C2: on equal congestion the prediction is the stage1 result, with the
\* stage1 probability; it is the stage2 result only when stage2's congestion
\* is strictly greater.
C2_TieKeepsFirst ==
    \A r \in Reqs :
        req[r].predictions # <<>> =>
            LET a == req[r].aggregated.results
                p == Last(req[r].predictions)
                chosen == [congestion |-> p.congestion,
                           probability |-> p.probability]
            IN  /\ a[1].congestion = a[2].congestion => chosen = a[1]
                /\ chosen = (IF a[2].congestion > a[1].congestion
                             THEN a[2] ELSE a[1])

\* a batch was returned whose last location had a tie between two results
\* of different probabilities, neither of them the fallback
C2_Witness ==
    \E r \in Reqs :
        /\ Succeeded(r)
        /\ req[r].aggregated.runs[1] # <<>>
        /\ req[r].aggregated.runs[2] # <<>>
        /\ req[r].aggregated.results[1].congestion
              = req[r].aggregated.results[2].congestion
        /\ req[r].aggregated.results[1].probability
              # req[r].aggregated.results[2].probability

\* C3: a failed run yields the result {congestion 0, probability 0} as an
\* ordinary return value: the result is pushed like any other, and a request
\* with a failed run is never answered from the catch block of GET.
C3_FallbackReturned ==
    \A r \in Reqs :
        LET rq == req[r]
            failedNow == {k \in 1..Len(rq.runs) : rq.runs[k] = <<>>}
            failedBefore == {k \in 1..Len(rq.aggregated.runs) :
                                rq.aggregated.runs[k] = <<>>}
        IN  /\ Len(rq.results) = Len(rq.runs)
            /\ Len(rq.aggregated.results) = Len(rq.aggregated.runs)
            /\ \A k \in failedNow : rq.results[k] = Fallback
            /\ \A k \in failedBefore : rq.aggregated.results[k] = Fallback
            /\ (failedNow # {} \/ failedBefore # {}) => ~Refused(r)

\* a request was answered after its stage1 run failed and stage2 ran on
C3_Witness ==
    \E r \in Reqs :
        /\ Succeeded(r)
        /\ req[r].aggregated.runs[1] = <<>>
        /\ req[r].aggregated.runs[2] # <<>>

\* C4: a request that obtained the weather and both sessions is answered
\* with a successful, complete batch, whatever runs failed.
C4_FailSoft ==
    \A r \in Reqs :
        /\ (Answered(r) /\ BothResident(req[r].held)) =>
              /\ req[r].response.status = 200
              /\ Len(req[r].response.predictions) = NumLocs
        /\ req[r].pc \in {"run1", "run2"} => BothResident(req[r].held)

\* a batch was returned although every run of it failed
C4_Witness ==
    \E r \in Reqs :
        /\ Succeeded(r)
        /\ req[r].aggregated.runs = << <<>>, <<>> >>
        /\ \A i \in 1..NumLocs :
              /\ req[r].response.predictions[i].probability = 0
              /\ req[r].response.predictions[i].congestion = 0

\* C5: every response is an error without predictions or a batch with one
\* prediction per configured location, in order, each with the name and the
\* coordinates of its location; no response exists before the request is
\* answered.
C5_CompleteOrError ==
    \A r \in Reqs :
        LET resp == req[r].response
        IN  IF Answered(r)
            THEN \/ /\ resp.status = 500
                    /\ resp.predictions = <<>>
                 \/ /\ resp.status = 200
                    /\ resp.error = ""
                    /\ Len(resp.predictions) = Len(cameraLocations)
                    /\ \A i \in 1..Len(cameraLocations) :
                          /\ resp.predictions[i].location = cameraLocations[i].name
                          /\ resp.predictions[i].latitude
                                = cameraLocations[i].latitude
                          /\ resp.predictions[i].longitude
                                = cameraLocations[i].longitude
            ELSE resp = NoResponse

\* a complete batch was returned
C5_Witness ==
    \E r \in Reqs :
        /\ Succeeded(r)
        /\ Len(req[r].response.predictions) = NumLocs
        /\ req[r].response.predictions[NumLocs].location
              = cameraLocations[NumLocs].name

\* the messages of the errors each awaited step can reject with
CausesAt(pc) ==
    CASE pc = "weather" -> {WeatherError.message}
      [] pc = "read" -> {ReadError(1).message, ReadError(2).message}
      [] pc = "create" -> {CreateError(1).message, CreateError(2).message}
      [] OTHER -> {}

\* a request is answered straight from the weather lookup or from getSessions
AcquisitionFailed(r) ==
    /\ req[r].pc \in {"weather", "read", "create"}
    /\ req'[r].pc = "done"

FatalAnswer(r) ==
    AcquisitionFailed(r) =>
        /\ req'[r].response.status = 500
        /\ req'[r].response.error = "Failed to generate predictions"
        /\ req'[r].response.details \in CausesAt(req[r].pc)
        /\ req'[r].response.predictions = <<>>
        /\ req'[r].idx = 0
        /\ req'[r].runs = <<>>
        /\ req'[r].aggregated.runs = <<>>

\* C6: a request that leaves the weather lookup, the artifact reads or the
\* session constructions with a failure is answered with status 500, the
\* generic message and the message of the underlying error as details, and
\* has run no inference.
C6_FatalForBatch == [][\A r \in Reqs : FatalAnswer(r)]_vars

\* a request was refused because the stage2 session could not be constructed
C6_Witness ==
    \E r \in Reqs :
        /\ Refused(r)
        /\ req[r].response.details = CreateError(2).message
        /\ req[r].loadId > 0

\* ---- the session cache under concurrent requests ------------------------
Partial(ok) == ok \in {<<TRUE, FALSE>>, <<FALSE, TRUE>>}
SomeFailed(ok) == ok # <<>> /\ ok # <<TRUE, TRUE>>

\* C7: the cache holds no handle or both, never exactly one.
C7_NoneOrBoth ==
    (sessions.stage1 = NoSession) <=> (sessions.stage2 = NoSession)

\* the cache is filled while another request's load failed with one of its
\* two sessions constructed
C7_Witness ==
    /\ BothResident(sessions)
    /\ \E r \in Reqs : Refused(r) /\ Partial(req[r].attempt.create)

\* the messages a load can fail with, given how its reads and constructions
\* settled
FailureCauses(attempt) ==
    {ReadError(k).message : k \in {j \in {1, 2} : SomeFailed(attempt.read)
                                                  /\ ~attempt.read[j]}}
    \cup {CreateError(k).message :
             k \in {j \in {1, 2} : SomeFailed(attempt.create)
                                   /\ ~attempt.create[j]}}

\* a request whose load had a failing read or construction is refused with
\* that error and holds no handle
FailedLoadRefused ==
    \A r \in Reqs :
        (SomeFailed(req[r].attempt.read) \/ SomeFailed(req[r].attempt.create)) =>
            /\ Refused(r)
            /\ req[r].response.details \in FailureCauses(req[r].attempt)
            /\ req[r].held = EmptySessions

\* the step in which a load fails writes nothing to the cache
FailedLoadCachesNothing ==
    \A r \in Reqs :
        (req[r].pc \in {"read", "create"} /\ req'[r].pc = "done") =>
            /\ sessions' = sessions
            /\ sessions = EmptySessions => sessions' = EmptySessions

\* an acquisition that finds the cache not filled starts a fresh load: both
\* reads, under a new load number, nothing kept from an earlier attempt
EmptyCacheLoadsAnew ==
    \A r \in Reqs :
        (req[r].pc = "weather" /\ req'[r].pc \notin {"weather", "done"}
            /\ ~BothResident(sessions)) =>
            /\ req'[r].pc = "read"
            /\ loads' = loads + 1
            /\ req'[r].loadId = loads'
            /\ req'[r].attempt = [read |-> <<>>, create |-> <<>>]
            /\ req'[r].held = EmptySessions

\* C8: when either read or either construction of a load fails, the request
\* is refused with the underlying error, the failing load writes nothing to
\* the cache (an empty cache stays empty, the sibling is not cached), and
\* the next acquisition on the empty cache loads both artifacts anew.
C8_FailedLoadLeavesCacheEmpty ==
    /\ []FailedLoadRefused
    /\ [][FailedLoadCachesNothing /\ EmptyCacheLoadsAnew]_vars

\* a load failed with one session constructed, the cache is empty, and a
\* later acquisition is reading the artifacts again
C8_Witness ==
    \E r1 \in Reqs, r2 \in Reqs :
        /\ Refused(r1)
        /\ Partial(req[r1].attempt.create)
        /\ sessions = EmptySessions
        /\ req[r2].pc = "read"
        /\ req[r2].loadId > req[r1].loadId

\* C9: while the cache is filled no load is started: an acquisition returns
\* the cached pair at once and the request goes on to its first inference.
C9_CacheReused ==
    [][(sessions.stage1 # NoSession /\ sessions.stage2 # NoSession) =>
          /\ loads' = loads
          /\ \A r \in Reqs :
                (req[r].pc = "weather" /\ req'[r].pc \notin {"weather", "done"}) =>
                    /\ req'[r].pc = "run1"
                    /\ req'[r].held = sessions
                    /\ req'[r].loadId = 0
                    /\ req'[r].attempt = [read |-> <<>>, create |-> <<>>]]_vars

\* a request was served from the cache, after the single load of the process
C9_Witness ==
    \E r \in Reqs :
        /\ Succeeded(r)
        /\ req[r].loadId = 0
        /\ req[r].held = sessions
        /\ loads = 1

\* C10 as claimed: once the cache holds both handles its contents are never
\* replaced, so at most one load completes successfully.
C10_NeverReplaced == [][BothResident(sessions) => sessions' = sessions]_vars

\* C10 as amended: a filled cache is never emptied or half-filled, and its
\* contents change only when a load that was already in flight completes,
\* which stores that load's own pair.
C10_ReplacedOnlyByOverlappingLoad ==
    [][BothResident(sessions) =>
          /\ BothResident(sessions')
          /\ sessions' # sessions =>
                \E r \in Reqs :
                    /\ req[r].pc = "create"
                    /\ req[r].loadId # sessions.stage1.load
                    /\ sessions' = [stage1 |-> Session(1, req[r].loadId),
                                    stage2 |-> Session(2, req[r].loadId)]]_vars

\* two overlapping loads both completed: a request holds the pair of one
\* load while the cache holds the pair of the other
C10_Witness ==
    \E r \in Reqs :
        /\ BothResident(req[r].held)
        /\ BothResident(sessions)
        /\ req[r].held # sessions

\* ---- decoding and reduction as functions --------------------------------
\* the lowest index at which the tensor has its largest value
FirstMaxIndex(out) ==
    CHOOSE i \in 1..Len(out) :
        /\ \A j \in 1..Len(out) : out[j] <= out[i]
        /\ \A j \in 1..(i - 1) : out[j] < out[i]

\* C11: for an output of 3 or more values runInference returns the index of
\* the largest value as congestion and that value as probability; of several
\* largest values the one at the lowest index is taken.
C11_ArgMaxFirst ==
    (probe.applied /\ Len(probe.out) >= 3) =>
        /\ probe.decoded.congestion = FirstMaxIndex(probe.out) - 1
        /\ probe.decoded.probability = probe.out[FirstMaxIndex(probe.out)]

\* decoded: an output whose largest value occurs twice, first at its second
\* place
C11_Witness ==
    /\ probe.applied
    /\ Len(probe.out) >= 3
    /\ probe.out[1] < probe.out[2]
    /\ probe.out[2] = probe.out[3]
    /\ probe.decoded.congestion = 1

\* the integers nearest to a value in tenths (two of them at a half)
NearestIntegers(v) == {n \in -2..4 : 10 * n - 5 <= v /\ v <= 10 * n + 5}

Clamp02(n) == IF n < 0 THEN 0 ELSE IF n > 2 THEN 2 ELSE n

\* C12: for an output of fewer than 3 values runInference returns the first
\* value, rounded to the nearest integer and clamped into 0..2, as
\* congestion, and probability 1.0; a second value is ignored.
C12_ScalarRoundedClamped ==
    (probe.applied /\ Len(probe.out) < 3) =>
        /\ probe.decoded.probability = 10
        /\ \E n \in NearestIntegers(probe.out[1]) :
              probe.decoded.congestion = Clamp02(n)

\* decoded: 1.6 followed by a second value decodes to High with 1.0
C12_Witness ==
    /\ probe.applied
    /\ Len(probe.out) = 2
    /\ probe.out[1] = 16
    /\ probe.out[2] = -10
    /\ probe.decoded = [congestion |-> 2, probability |-> 10]

\* C17: replacing one result of a list by a result of equal or higher
\* congestion never lowers the congestion of the reduced result.
C17_Monotonic ==
    probe.applied =>
        /\ probe.by.congestion >= probe.results[probe.at].congestion
        /\ probe.after.congestion >= probe.before.congestion

\* reduced: a replacement of the same level but higher probability in a list
\* whose other results are of a higher level
C17_Witness ==
    /\ probe.applied
    /\ Len(probe.results) >= 2
    /\ probe.by.congestion = probe.results[probe.at].congestion
    /\ probe.by.probability > probe.results[probe.at].probability
    /\ probe.before.congestion > probe.by.congestion
    /\ probe.after = probe.before

\* ---- the feature vector --------------------------------------------------
\* v is the vector of location i for the time and weather request r resolved
IsFeatureVector(v, i, r) ==
    /\ Len(v) = 8
    /\ v[1] = Num(cameraLocations[i].latitude)
    /\ v[2] = Num(cameraLocations[i].longitude)
    /\ v[3] = req[r].hour
    /\ v[4] = req[r].day
    /\ v[5] = Num(req[r].weather.temperature_2m)
    /\ v[6] = Num(req[r].weather.precipitation)
    /\ v[7] = Num(req[r].weather.rain)
    /\ v[8] = Num(req[r].weather.wind_speed_10m)

\* C13: every vector passed to a model has the 8 elements latitude,
\* longitude, hour, day, temperature, precipitation, rain, wind speed of its
\* location and of the request's resolved time and weather, in this order,
\* and stage1 and stage2 are passed the same vector.
C13_FeatureVector ==
    \A r \in Reqs :
        /\ \A k \in 1..Len(req[r].calls) :
              IsFeatureVector(req[r].calls[k].input, req[r].idx, r)
        /\ req[r].predictions # <<>> =>
              /\ Len(req[r].aggregated.calls) = 2
              /\ req[r].aggregated.calls[1].input = req[r].aggregated.calls[2].input
              /\ IsFeatureVector(req[r].aggregated.calls[1].input,
                                 Len(req[r].predictions), r)

\* both models were run for the last location of a request whose hour
\* parameter was given and whose day came from the clock
C13_Witness ==
    \E r \in Reqs :
        /\ Succeeded(r)
        /\ req[r].customHour = << <<"1", "2">> >>
        /\ req[r].customDay = null
        /\ req[r].aggregated.calls[2].input[3] = Num(12)
        /\ req[r].aggregated.calls[2].input[4] = Num(3)
        /\ req[r].aggregated.calls[2].input[1] = Num(cameraLocations[NumLocs].latitude)

\* ---- time resolution -----------------------------------------------------
\* the value the claim gives a parameter: its integer when it is present and
\* has one, the clock's value in every other case
OverrideOrClock(custom, current) ==
    IF custom # null /\ parseInt(custom[1]) # NaN
    THEN parseInt(custom[1])
    ELSE Num(current)

\* C14: the resolved hour and day of a request are the parameter's integer
\* when the parameter is present and parses as an integer, and the clock's
\* hour and day in every other case; the response carries the same values.
C14_OverrideOrClock ==
    \A r \in Reqs :
        /\ req[r].pc # "idle" =>
              /\ req[r].hour = OverrideOrClock(req[r].customHour,
                                               req[r].timeInfo.hour)
              /\ req[r].day = OverrideOrClock(req[r].customDay,
                                              req[r].timeInfo.day)
        /\ Succeeded(r) =>
              /\ req[r].response.hour = req[r].hour
              /\ req[r].response.day = req[r].day

\* ---- both models or no batch ---------------------------------------------
\* C15: a request that runs inference holds both handles; every aggregation
\* receives exactly two results, the first from the stage1 handle and the
\* second from the stage2 handle; a request refused has no predictions in
\* its response; and a location left without results ends the request with
\* the error "No models loaded" and without a prediction for it.
C15_BothModelsOrNone ==
    \A r \in Reqs :
        LET rq == req[r]
        IN  /\ (rq.pc \in {"run1", "run2"} \/ rq.predictions # <<>>) =>
                  /\ rq.held.stage1 # NoSession
                  /\ rq.held.stage2 # NoSession
            /\ rq.pc = "run1" => rq.results = <<>>
            /\ rq.pc = "run2" =>
                  /\ Len(rq.results) = 1
                  /\ rq.calls[1].session = rq.held.stage1
            /\ rq.predictions # <<>> =>
                  /\ Len(rq.aggregated.results) = 2
                  /\ rq.aggregated.calls[1].session = rq.held.stage1
                  /\ rq.aggregated.calls[1].session.stage = 1
                  /\ rq.aggregated.calls[2].session = rq.held.stage2
                  /\ rq.aggregated.calls[2].session.stage = 2
                  /\ \A k \in 1..2 :
                        rq.aggregated.results[k]
                           = (IF rq.aggregated.runs[k] = <<>>
                              THEN [congestion |-> 0, probability |-> 0]
                              ELSE Decode(rq.aggregated.runs[k][1]))
            /\ Refused(r) => rq.response.predictions = <<>>
            /\ (Answered(r) /\ rq.idx >= 1 /\ rq.results = <<>>) =>
                  /\ Refused(r)
                  /\ rq.response.details = "No models loaded"
                  /\ Len(rq.predictions) = rq.idx - 1

\* a batch was returned whose last aggregation had a stage1 result and a
\* stage2 result that differ
C15_Witness ==
    \E r \in Reqs :
        /\ Succeeded(r)
        /\ req[r].aggregated.calls[1].session.stage = 1
        /\ req[r].aggregated.calls[2].session.stage = 2
        /\ req[r].aggregated.runs[1] = << <<26>> >>
        /\ req[r].aggregated.runs[2] = << <<1, 7, 2>> >>

\* ---- the three levels ----------------------------------------------------
\* C18: every congestion value runInference returns, and every prediction's
\* congestion, is 0, 1 or 2, and every prediction's label is Low, Moderate
\* or High.
C18_ThreeLevels ==
    \A r \in Reqs :
        /\ \A k \in 1..Len(req[r].results) :
              req[r].results[k].congestion \in {0, 1, 2}
        /\ \A i \in 1..Len(req[r].predictions) :
              /\ req[r].predictions[i].congestion \in {0, 1, 2}
              /\ req[r].predictions[i].congestionLabel
                    \in {"Low", "Moderate", "High"}

\* ---- one model failing --------------------------------------------------
\* exactly one of the two runs behind the latest prediction of r failed
OneFailed(r) ==
    /\ req[r].predictions # <<>>
    /\ Len(req[r].aggregated.runs) = 2
    /\ (req[r].aggregated.runs[1] = <<>>) # (req[r].aggregated.runs[2] = <<>>)

FailedStage(r) == IF req[r].aggregated.runs[1] = <<>> THEN 1 ELSE 2
Healthy(r) == req[r].aggregated.results[3 - FailedStage(r)]

\* C19 as claimed: with one model failing, the prediction has the level and
\* the probability of the healthy model's result.
C19_HealthyResultReported ==
    \A r \in Reqs :
        OneFailed(r) =>
            /\ Last(req[r].predictions).congestion = Healthy(r).congestion
            /\ Last(req[r].predictions).probability = Healthy(r).probability

\* C19 as amended: the prediction has the level of the healthy model's
\* result; it has its probability too, except when stage1 is the model that
\* failed and the healthy stage2 result is Low: then the prediction reports
\* probability 0, that of the stage1 fallback.
C19_HealthyLevelReported ==
    \A r \in Reqs :
        OneFailed(r) =>
            /\ Last(req[r].predictions).congestion = Healthy(r).congestion
            /\ Last(req[r].predictions).probability =
                  (IF FailedStage(r) = 1 /\ Healthy(r).congestion = 0
                   THEN 0 ELSE Healthy(r).probability)

\* stage1 failed, stage2 returned Low with 0.5, and the batch was returned
\* with probability 0 for that location
C19_Witness ==
    \E r \in Reqs :
        /\ Succeeded(r)
        /\ req[r].aggregated.runs[1] = <<>>
        /\ req[r].aggregated.runs[2] = << <<5, 5, 0>> >>
        /\ Last(req[r].response.predictions).congestion = 0
        /\ Last(req[r].response.predictions).probability = 0

\* ---- the handles of one batch ---------------------------------------------
InLoop(rq) == rq.pc \in {"run1", "run2"}

\* the pair a request holds was made by one load, and every inference call of
\* the current and of the latest aggregated location ran on that pair
OwnPair(rq) ==
    /\ rq.held.stage1.stage = 1
    /\ rq.held.stage2.stage = 2
    /\ rq.held.stage1.load >= 1
    /\ rq.held.stage1.load = rq.held.stage2.load
    /\ \A k \in 1..Len(rq.calls) :
          rq.calls[k].session = (IF k = 1 THEN rq.held.stage1 ELSE rq.held.stage2)
    /\ \A k \in 1..Len(rq.aggregated.calls) :
          rq.aggregated.calls[k].session
              = (IF k = 1 THEN rq.held.stage1 ELSE rq.held.stage2)

\* C20: the stage1 and stage2 handles a request uses come from the same load,
\* every inference of the batch runs on them, and they stay the same from the
\* first location to the response, whatever other requests do to the cache.
C20_OnePairPerBatch ==
    [][\A r \in Reqs :
          /\ (InLoop(req'[r]) \/ Succeeded(r)') => OwnPair(req'[r])
          /\ InLoop(req[r]) => req'[r].held = req[r].held]_vars

\* a request is past its first location, on the pair of its own load, while
\* the cache holds the pair of a later load of another request
C20_Witness ==
    \E r \in Reqs :
        /\ InLoop(req[r])
        /\ req[r].idx >= 2
        /\ req[r].loadId >= 1
        /\ req[r].held.stage1 = Session(1, req[r].loadId)
        /\ req[r].aggregated.calls # <<>>
        /\ BothResident(sessions)
        /\ sessions.stage1.load # req[r].loadId

\* ---- termination ---------------------------------------------------------
\* a request has a response exactly when it is done, the response is a batch
\* with a prediction per location or an error, and it is not changed
OneResponse ==
    \A r \in Reqs :
        /\ (req'[r].response # NoResponse) <=> (req'[r].pc = "done")
        /\ Succeeded(r)' => Len(req'[r].response.predictions) = NumLocs
        /\ Answered(r)' => req'[r].response.status \in {200, 500}
        /\ Answered(r) => (req'[r] = req[r] \/ req'[r] = IdleReq)

\* C16: when every awaited step settles, every request that arrived ends with
\* exactly one response, a complete batch or an error, whatever the other
\* requests do meanwhile.
C16_EventuallyAnswered ==
    /\ [][OneResponse]_vars
    /\ \A r \in Reqs : (req[r].pc # "idle") ~> Answered(r)

\* a request that loaded the models itself was answered with a batch while
\* another request was still constructing its sessions
C16_Witness ==
    \E r \in Reqs, q \in Reqs :
        /\ Succeeded(r)
        /\ req[r].loadId >= 1
        /\ req[q].pc = "create"
        /\ req[q].loadId < req[r].loadId

====
